---- MODULE Spec2Model ----
(***************************************************************************)
(* A model of FuturesTradingBot (src/futures_trading_bot.py): the bar      *)
(* buffer self.data, the moving-average crossover signal, the tracked      *)
(* position, the on_bar_update tasks spawned per live bar on the asyncio   *)
(* loop, and the run() lifecycle (connect, backfill, subscribe, session    *)
(* end, disconnect).                                                       *)
(*                                                                         *)
(* asyncio is cooperative: a coroutine runs without interruption up to an  *)
(* await that really suspends.  on_bar_update therefore runs atomically    *)
(* from the concat of the new bar to the first asyncio.sleep(0.1) inside   *)
(* execute_trade (or to its end when delta == 0); every later wake-up of   *)
(* the task is one poll of trade.isDone().                                 *)
(***************************************************************************)
EXTENDS Integers, Sequences, FiniteSets, TLC

(* ------------------------------ bounds -------------------------------- *)
MaxBars == 2        \* live bars delivered by the subscription
MaxHist == 7        \* longest backfilled history (exceeds the trim cap 6)
MaxTime == 2        \* wall-clock instants 0..MaxTime
MaxTasks == 2       \* tasks pending at once in the endless-stream environment

None == 0 - 1       \* Optional[str] start_time / end_time left unset

VARIABLES
    config,         \* self.config (BotConfig)
    chainedWrite,   \* does the chained assignment df['signal'][n:] = ... write
                    \* through to df (classic pandas) or to a temporary
                    \* (copy-on-write pandas); fixed by the installed build
    pc,             \* position of run(): "init", "connected", "live", "done"
                    \* (run returned through its finally clause), "failed"
                    \* (connect raised before the try block)
    connected,      \* self.ib.isConnected()
    data,           \* self.data: rows [date, close, signal], in storage order
    position,       \* self.position
    tasks,          \* on_bar_update tasks suspended in execute_trade's wait
                    \* loop: [action, quantity, status] (status of the Trade)
    barsSeen,       \* number of live bars delivered so far
    now             \* dt.datetime.now(), as a time of day

vars == <<config, chainedWrite, pc, connected, data, position, tasks, barsSeen, now>>

(* ------------------------------ helpers ------------------------------- *)
Max(a, b) == IF a >= b THEN a ELSE b
Min(a, b) == IF a <= b THEN a ELSE b
Abs(a) == IF a < 0 THEN 0 - a ELSE a

\* the closing prices bars are drawn from
Closes == {1, 2}

BotConfig(sw, lw, os, mp, st, et) ==
    [short_window |-> sw, long_window |-> lw, order_size |-> os,
     max_position |-> mp, start_time |-> st, end_time |-> et]

\* The configurations explored: the defaults scaled down to windows 1 and 2,
\* a position limit below and above the order size, and a session window.
Configs ==
    { BotConfig(1, 2, 1, 1, None, None),
      BotConfig(1, 2, 2, 1, None, None),
      BotConfig(1, 2, 1, 2, 1, 2) }

\* Configurations outside the documented ranges: long_window <= short_window,
\* and max_position < order_size.
InvalidConfigs ==
    { BotConfig(2, 1, 1, 1, None, 2),
      BotConfig(1, 2, 2, 1, None, None) }

\* order status values of a Trade for which trade.isDone() is true
DoneStates == {"Filled", "Cancelled"}

\* Histories the backfill may return: n bars dated 1..n, all closing at c
\* (n = 0 is the empty answer).
History(n, c) == [i \in 1..n |-> [date |-> i, close |-> c, signal |-> 0]]

Histories == { History(n, c) : n \in 0..MaxHist, c \in Closes }

\* Live bars that may arrive after the buffer d: dated just before, at, or
\* just after the last stored bar.
LiveBars(d) ==
    LET last == IF d = <<>> THEN 1 ELSE d[Len(d)].date
    IN  { [date |-> t, close |-> c, signal |-> 0] :
            t \in {last - 1, last, last + 1}, c \in Closes }

(* -------------------------- compute_indicators ------------------------ *)
RECURSIVE SumCloses(_, _, _)
\* sum of the closes of rows lo..hi of d
SumCloses(d, lo, hi) == IF lo > hi THEN 0 ELSE d[hi].close + SumCloses(d, lo, hi - 1)

\* rolling(window=w).mean() is defined at row i (1-based) iff i >= w
RollingDefined(i, w) == i >= w

\* sma_short > sma_long at row i; a comparison with NaN is False.
\* mean_s > mean_l  <=>  sum_s * lw > sum_l * sw
ShortAboveLong(d, i) ==
    LET sw == config.short_window
        lw == config.long_window
    IN  /\ RollingDefined(i, sw)
        /\ RollingDefined(i, lw)
        /\ SumCloses(d, i - sw + 1, i) * lw > SumCloses(d, i - lw + 1, i) * sw

\* rows the slice [long_window:] covers: 0-based index >= long_window
InSignalSlice(i) == i - 1 >= config.long_window

SignalAt_cumulative(d, i) ==
    d[i].signal +
        (IF chainedWrite /\ InSignalSlice(i)
         THEN (IF ShortAboveLong(d, i) THEN 1 ELSE 0) * 2 - 1
         ELSE 0)

SignalAt(d, i) ==
    IF chainedWrite /\ InSignalSlice(i)
    THEN (IF ShortAboveLong(d, i) THEN 1 ELSE 0) * 2 - 1
    ELSE 0

compute_indicators(d) ==
    IF d = <<>> THEN d
    ELSE [i \in 1..Len(d) |-> [d[i] EXCEPT !.signal = SignalAt(d, i)]]

latest_signal(d) == IF d = <<>> THEN 0 ELSE d[Len(d)].signal

(* ----------------------------- on_bar_update -------------------------- *)
max_lookback == Max(config.short_window, config.long_window)

Trim_keep_oldest(d) ==
    IF Len(d) > max_lookback * 3
    THEN SubSeq(d, 1, max_lookback * 3)
    ELSE d

Trim(d) ==
    IF Len(d) > max_lookback * 3
    THEN SubSeq(d, Len(d) - max_lookback * 3 + 1, Len(d))
    ELSE d

(* ----------------------------- execute_trade -------------------------- *)
desired_position_unclipped(signal) == signal * config.order_size

desired_position(signal) ==
    Max(0 - config.max_position, Min(config.max_position, signal * config.order_size))

OrderAction(delta) == IF delta > 0 THEN "BUY" ELSE "SELL"

OrderQuantity(delta) == Abs(delta)

PlaceOrder_always(ts, signal, pos) ==
    LET delta == desired_position(signal) - pos
    IN  Append(ts, [action |-> OrderAction(delta),
                    quantity |-> OrderQuantity(delta),
                    status |-> "Submitted"])

\* the tasks after execute_trade ran to its first suspension
PlaceOrder(ts, signal, pos) ==
    LET delta == desired_position(signal) - pos
    IN  IF delta = 0 THEN ts
        ELSE Append(ts, [action |-> OrderAction(delta),
                         quantity |-> OrderQuantity(delta),
                         status |-> "Submitted"])

PositionAfter_always_add(pos, task) == pos + task.quantity

PositionAfter(pos, task) ==
    IF task.action = "BUY" THEN pos + task.quantity ELSE pos - task.quantity

RemoveAt(s, i) == SubSeq(s, 1, i - 1) \o SubSeq(s, i + 1, Len(s))

(* ------------------------------- actions ------------------------------ *)
\* the bot as __init__ leaves it, for a configuration of cs; __init__ stores
\* the configuration as given
InitWith(cs) ==
    /\ config \in cs
    /\ chainedWrite \in BOOLEAN
    /\ pc = "init"
    /\ connected = FALSE
    /\ data = <<>>
    /\ position = 0
    /\ tasks = <<>>
    /\ barsSeen = 0
    /\ now = 0

Init == InitWith(Configs)

InitInvalid == InitWith(InvalidConfigs)

\* run(): await self.connect(), outside the try block
Connect ==
    /\ pc = "init"
    /\ \E ok \in BOOLEAN :
         /\ connected' = ok
         /\ pc' = IF ok THEN "connected" ELSE "failed"
    /\ UNCHANGED <<config, chainedWrite, data, position, tasks, barsSeen, now>>

Backfill_no_finally ==
    /\ pc = "connected"
    /\ \E bars \in Histories :
         IF bars = <<>>
         THEN /\ pc' = "done"
              /\ connected' = connected
              /\ data' = data
         ELSE /\ pc' = "live"
              /\ connected' = connected
              /\ data' = compute_indicators(bars)
    /\ UNCHANGED <<config, chainedWrite, position, tasks, barsSeen, now>>

\* run(): fetch_historical_data, compute_indicators, reqRealTimeBars; an empty
\* answer raises ValueError and the finally clause disconnects
Backfill ==
    /\ pc = "connected"
    /\ \E bars \in Histories :
         IF bars = <<>>
         THEN /\ pc' = "done"
              /\ connected' = FALSE
              /\ data' = data
         ELSE /\ pc' = "live"
              /\ connected' = connected
              /\ data' = compute_indicators(bars)
    /\ UNCHANGED <<config, chainedWrite, position, tasks, barsSeen, now>>

OnBarUpdate_blocking(bar) ==
    /\ pc = "live"
    /\ tasks = <<>>
    /\ barsSeen < MaxBars
    /\ barsSeen' = barsSeen + 1
    /\ data' = compute_indicators(Trim(Append(data, bar)))
    /\ tasks' = PlaceOrder(tasks, latest_signal(data'), position)
    /\ UNCHANGED <<config, chainedWrite, pc, connected, position, now>>

\* one live bar: the task created by the updateEvent handler, run up to its
\* first suspension
OnBarUpdate(bar) ==
    /\ pc = "live"
    /\ barsSeen < MaxBars
    /\ barsSeen' = barsSeen + 1
    /\ data' = compute_indicators(Trim(Append(data, bar)))
    /\ tasks' = PlaceOrder(tasks, latest_signal(data'), position)
    /\ UNCHANGED <<config, chainedWrite, pc, connected, position, now>>

\* the gateway reports the order of task i filled
Fill(i) ==
    /\ pc = "live"
    /\ tasks[i].status = "Submitted"
    /\ tasks' = [tasks EXCEPT ![i].status = "Filled"]
    /\ UNCHANGED <<config, chainedWrite, pc, connected, data, position, barsSeen, now>>

\* the gateway reports the order of task i cancelled (rejected)
Cancel(i) ==
    /\ pc = "live"
    /\ tasks[i].status = "Submitted"
    /\ tasks' = [tasks EXCEPT ![i].status = "Cancelled"]
    /\ UNCHANGED <<config, chainedWrite, pc, connected, data, position, barsSeen, now>>

\* task i wakes from asyncio.sleep(0.1), finds trade.isDone() and finishes
Poll(i) ==
    /\ pc = "live"
    /\ tasks[i].status \in DoneStates
    /\ position' = PositionAfter(position, tasks[i])
    /\ tasks' = RemoveAt(tasks, i)
    /\ UNCHANGED <<config, chainedWrite, pc, connected, data, barsSeen, now>>

\* the wall clock advances while run() is alive
Tick ==
    /\ pc \notin {"done", "failed"}
    /\ now < MaxTime
    /\ now' = now + 1
    /\ UNCHANGED <<config, chainedWrite, pc, connected, data, position, tasks, barsSeen>>

\* run(): the loop `while dt.datetime.now() < end_dt` ends, finally disconnects;
\* asyncio.run then cancels the tasks still waiting
SessionEnd ==
    /\ pc = "live"
    /\ config.end_time # None
    /\ now >= config.end_time
    /\ pc' = "done"
    /\ connected' = FALSE
    /\ UNCHANGED <<config, chainedWrite, data, position, tasks, barsSeen, now>>

\* KeyboardInterrupt: asyncio.run cancels run(), whose finally disconnects
Interrupt ==
    /\ pc = "live"
    /\ pc' = "done"
    /\ connected' = FALSE
    /\ UNCHANGED <<config, chainedWrite, data, position, tasks, barsSeen, now>>

Next ==
    \/ Connect
    \/ Backfill
    \/ \E bar \in LiveBars(data) : OnBarUpdate(bar)
    \/ \E i \in DOMAIN tasks : Fill(i)
    \/ \E i \in DOMAIN tasks : Cancel(i)
    \/ \E i \in DOMAIN tasks : Poll(i)
    \/ Tick
    \/ SessionEnd
    \/ Interrupt

Spec == Init /\ [][Next]_vars

\* some waiting task is woken by the event loop and leaves its wait loop
PollAny == \E i \in DOMAIN tasks : Poll(i)

\* The event loop keeps running what is runnable: a sleeping task wakes up
\* and re-tests trade.isDone(), the run loop re-tests the clock, and time
\* passes.  Nothing is assumed of the gateway, the bar stream or the user.
SpecFair ==
    /\ Init /\ [][Next]_vars
    /\ WF_vars(PollAny)
    /\ WF_vars(SessionEnd)
    /\ WF_vars(Tick)

\* The program in an environment where bar callbacks never overlap (a bar
\* arrives only when no on_bar_update task is pending) and the gateway fills
\* every order.
OnBarUpdateSequential(bar) ==
    /\ tasks = <<>>
    /\ OnBarUpdate(bar)

NextSequential ==
    \/ Connect
    \/ Backfill
    \/ \E bar \in LiveBars(data) : OnBarUpdateSequential(bar)
    \/ \E i \in DOMAIN tasks : Fill(i)
    \/ \E i \in DOMAIN tasks : Poll(i)
    \/ Tick
    \/ SessionEnd
    \/ Interrupt

SpecSequential == Init /\ [][NextSequential]_vars

\* The program in an environment that never stops: the stream keeps
\* delivering updates of the current bar (same timestamp and close as the last
\* stored bar, so the signal settles), also while orders are in flight; the
\* gateway fills every order; nobody interrupts.  Delivered bars are no longer
\* counted; at most MaxTasks tasks are pending at once.
SteadyBars(d) == { bar \in LiveBars(d) : bar.date = d[Len(d)].date
                                         /\ bar.close = d[Len(d)].close }

OnBarUpdateSteady(bar) ==
    /\ pc = "live"
    /\ Len(tasks) < MaxTasks
    /\ data' = compute_indicators(Trim(Append(data, bar)))
    /\ tasks' = PlaceOrder(tasks, latest_signal(data'), position)
    /\ UNCHANGED <<config, chainedWrite, pc, connected, position, barsSeen, now>>

BarArrives == pc = "live" /\ \E bar \in SteadyBars(data) : OnBarUpdateSteady(bar)

FillAt(i) == i \in DOMAIN tasks /\ Fill(i)

PollAt(i) == i \in DOMAIN tasks /\ Poll(i)

NextSteady ==
    \/ Connect
    \/ Backfill
    \/ BarArrives
    \/ \E i \in 1..MaxTasks : FillAt(i)
    \/ \E i \in 1..MaxTasks : PollAt(i)

SpecSteady ==
    /\ Init /\ [][NextSteady]_vars
    /\ WF_vars(BarArrives)
    /\ \A i \in 1..MaxTasks : WF_vars(FillAt(i)) /\ WF_vars(PollAt(i))

\* the same program constructed with an out-of-range configuration
SpecInvalid == InitInvalid /\ [][Next]_vars

(* ------------------------------ properties ---------------------------- *)
\* orders placed whose Trade has not reached a terminal status
InFlight == { i \in DOMAIN tasks : tasks[i].status \notin DoneStates }

\* a row without its derived columns
Bar(row) == [date |-> row.date, close |-> row.close]
Bars(d) == [i \in 1..Len(d) |-> Bar(d[i])]

\* this step placed an order
OrderPlaced == Len(tasks') > Len(tasks)

\* C1: at most one order is in flight at any instant, whatever the
\* interleaving of bar callbacks and fill confirmations.
C1_AtMostOneOrderInFlight == Cardinality(InFlight) <= 1

\* C2: whenever every submitted order has settled and its cycle has finished,
\* |position| <= max_position.
C2_PositionWithinLimit ==
    tasks = <<>> => Abs(position) <= config.max_position

\* C3: the tracked position changes only when an order is confirmed filled;
\* a cycle whose order ends cancelled or rejected leaves it unchanged.
C3_PositionChangesOnlyOnFill ==
    [][position' # position =>
         \E i \in DOMAIN tasks :
            /\ tasks[i].status = "Filled"
            /\ tasks' = RemoveAt(tasks, i)]_vars

\* C4: bar timestamps in the buffer are strictly increasing after any
\* sequence of bar arrivals (an equal timestamp replaces the last bar, a
\* smaller one is rejected).
C4_TimestampsStrictlyIncreasing ==
    \A i \in 1..(Len(data) - 1) : data[i].date < data[i + 1].date

\* C5: one reconciliation computes desired = clip(signal * order_size,
\* -max_position, +max_position) and delta = desired - position, and places
\* BUY |delta| when delta > 0, SELL |delta| when delta < 0, nothing when
\* delta = 0.
C5_ReconcileDecision ==
    [][barsSeen' = barsSeen + 1 =>
         LET signal == latest_signal(data')
             raw == signal * config.order_size
             desired == IF raw > config.max_position THEN config.max_position
                        ELSE IF raw < 0 - config.max_position
                             THEN 0 - config.max_position
                             ELSE raw
             delta == desired - position
         IN  /\ signal \in {0 - 1, 0, 1}
             /\ delta > 0 =>
                  tasks' = Append(tasks, [action |-> "BUY", quantity |-> delta,
                                          status |-> "Submitted"])
             /\ delta < 0 =>
                  tasks' = Append(tasks, [action |-> "SELL", quantity |-> 0 - delta,
                                          status |-> "Submitted"])
             /\ delta = 0 => tasks' = tasks]_vars

\* C5 witness: with order_size above max_position, a SELL of 2 placed from
\* position +1 (target clipped to -1).
C5_Witness ==
    /\ config.order_size > config.max_position
    /\ position = 1
    /\ \E i \in DOMAIN tasks :
          /\ tasks[i].action = "SELL"
          /\ tasks[i].quantity = 2
          /\ tasks[i].status = "Submitted"

\* C6: assuming every submitted order is filled, orders are emitted exactly
\* once per signal change: a bar that leaves the latest signal unchanged
\* submits no further order once an order for that signal is outstanding.
C6_OneOrderPerSignalChange ==
    [][( /\ OrderPlaced
         /\ latest_signal(data') = latest_signal(data)
         /\ \A i \in DOMAIN tasks : tasks[i].status # "Cancelled" )
       => tasks = <<>>]_vars

\* C7: with short_window < long_window the latest signal is Flat whenever the
\* buffer holds fewer than long_window bars and non-Flat whenever it holds
\* long_window bars or more.
C7_FlatExactlyBelowLongWindow ==
    (pc = "live" /\ config.short_window < config.long_window) =>
        /\ Len(data) < config.long_window => latest_signal(data) = 0
        /\ Len(data) >= config.long_window => latest_signal(data) # 0

\* C8: after every live bar append the buffer holds at most
\* 3 * max(short_window, long_window) bars, also after a longer backfill;
\* trimming drops only the oldest bars, so the buffer is the most recent bars
\* in arrival order and ends with the bar just appended.
C8_TrimKeepsMostRecent ==
    [][\A bar \in LiveBars(data) :
         OnBarUpdate(bar) =>
            LET cap == 3 * Max(config.short_window, config.long_window)
                old == Bars(data)
                new == Bars(data')
            IN  /\ Len(new) = Min(Len(old) + 1, cap)
                /\ new[Len(new)] = Bar(bar)
                /\ \A k \in 1..(Len(new) - 1) :
                      new[Len(new) - k] = old[Len(old) - k + 1]]_vars

\* C8 witness: a backfill of 7 bars (above the cap of 6) followed by one live
\* bar: the two oldest bars are gone and the buffer is full.
C8_Witness ==
    /\ barsSeen = 1
    /\ Len(data) = 3 * max_lookback
    /\ data[1].date = 3
    /\ data[Len(data)].date = 8

\* is the session window open at the current time
SessionActive ==
    /\ config.start_time = None \/ now >= config.start_time
    /\ config.end_time = None \/ now < config.end_time

\* C9: no order is submitted while the session is inactive (before
\* start_time, or at/after end_time).
C9_NoOrderOutsideSession == [][OrderPlaced => SessionActive]_vars

\* C10: on shutdown the connection is not released while an order is still
\* in flight.
C10_NoDisconnectWithOrderInFlight == pc = "done" => InFlight = {}

\* the ranges the configuration surface documents
ValidConfig ==
    /\ config.short_window > 0
    /\ config.long_window > config.short_window
    /\ config.order_size > 0
    /\ config.max_position >= config.order_size

\* C11: an invalid configuration is rejected at construction: the bot never
\* leaves its constructed state, so no connection attempt, subscription or
\* order submission occurs.
C11_InvalidConfigRejected ==
    ~ValidConfig => (~connected /\ pc \notin {"connected", "live"} /\ tasks = <<>>)

\* C12: an empty backfill is fatal at startup: the stored bar data stays
\* empty, no subscription is made and no order is ever placed, and the
\* connection is disconnected before run() exits.
C12_EmptyHistoryFatal ==
    [][ /\ (pc = "connected" /\ pc' # "live") =>
            /\ pc' \in {"connected", "done"}
            /\ pc' = "done" => (~connected' /\ data' = <<>>)
        /\ pc' = "live" => data' # <<>>
        /\ (pc = "done" /\ data = <<>>) =>
            (pc' = "done" /\ ~connected' /\ data' = <<>> /\ tasks' = <<>>) ]_vars

\* C12 witness: run() has exited through its finally clause with nothing
\* stored, nothing subscribed and the connection released.
C12_Witness ==
    pc = "done" /\ data = <<>> /\ ~connected /\ tasks = <<>> /\ barsSeen = 0

\* C13: whenever the latest bar has both moving averages defined (the buffer
\* holds at least long_window bars), the latest signal is Long if the short
\* average is strictly above the long average and Short otherwise.
C13_SignalFollowsAverages ==
    (pc = "live" /\ config.short_window < config.long_window
                 /\ Len(data) >= config.long_window) =>
        latest_signal(data) = IF ShortAboveLong(data, Len(data)) THEN 1 ELSE 0 - 1

\* the order a reconciliation cycle places for the stored signal at position
\* pos (the empty sequence when it places none)
Demanded(pos) == PlaceOrder(<<>>, latest_signal(data), pos)

\* C15: after an order is rejected, the next bar's cycle with an unchanged
\* signal computes the same delta again and re-submits the same action and
\* quantity.
C15_RejectedOrderRetried ==
    [][\A i \in DOMAIN tasks :
         ( /\ Len(tasks) = 1
           /\ tasks[i].status = "Cancelled"
           /\ Demanded(position) = <<[tasks[i] EXCEPT !.status = "Submitted"]>>
           /\ tasks' = <<>>
           /\ data' = data )
         => PlaceOrder(<<>>, latest_signal(data'), position')
              = <<[tasks[i] EXCEPT !.status = "Submitted"]>>]_vars

\* rows as pd.concat leaves them before the indicators are recomputed
Raw(d) == [i \in 1..Len(d) |-> [d[i] EXCEPT !.signal = 0]]

C17_ZeroDeltaNoEffect ==
    [][(barsSeen' = barsSeen + 1
          /\ desired_position(latest_signal(data')) - position = 0) =>
         /\ tasks' = tasks
         /\ position' = position
         /\ \E bar \in LiveBars(data) :
               data' = compute_indicators(Trim(Append(data, bar)))]_vars

\* C17 witness: position -1 with signal Short at both live bars and nothing
\* pending: the second bar's cycle found delta 0.
C17_Witness ==
    /\ pc = "live"
    /\ barsSeen = 2
    /\ tasks = <<>>
    /\ config.order_size = 1
    /\ config.max_position = 1
    /\ position = 0 - 1
    /\ data[Len(data)].signal = 0 - 1
    /\ data[Len(data) - 1].signal = 0 - 1

\* C18: recomputing the indicators on an unchanged buffer yields the same
\* signals, and the stored signals are those computed from the current bars
\* alone.
C18_RecomputeIdempotent ==
    /\ compute_indicators(data) = data
    /\ compute_indicators(Raw(data)) = data

\* C18 witness: a full, trimmed buffer whose latest signal is Long.
C18_Witness ==
    /\ barsSeen >= 1
    /\ Len(data) = 3 * max_lookback
    /\ data[1].date > 1
    /\ latest_signal(data) = 1

\* clip(signal * order_size, -max_position, +max_position)
ClippedTarget(signal) ==
    LET raw == signal * config.order_size
    IN  IF raw > config.max_position THEN config.max_position
        ELSE IF raw < 0 - config.max_position THEN 0 - config.max_position
        ELSE raw

\* C19: when bar callbacks never overlap and every order is filled, after
\* each callback completes the position equals
\* clip(latest signal * order_size, -max_position, +max_position), and a
\* callback places at most one order.
C19_SequentialConvergence ==
    /\ Len(tasks) <= 1
    /\ (barsSeen >= 1 /\ tasks = <<>>) =>
          position = ClippedTarget(latest_signal(data))

\* C19 witness: Short at the first live bar, Long at the second, both
\* callbacks completed: the position went 0, -1, +1.
C19_Witness ==
    /\ barsSeen = 2
    /\ tasks = <<>>
    /\ position = 1
    /\ data[Len(data) - 1].signal = 0 - 1
    /\ latest_signal(data) = 1

\* C14: waiting for an order's terminal status is bounded: every cycle that
\* placed an order eventually finishes (or the program shuts down), even if
\* the gateway never reports the order done.
C14_WaitIsBounded == (tasks # <<>>) ~> (tasks = <<>> \/ pc = "done")

\* C20: if from some point on the latest signal stays constant while bars
\* keep arriving and every order is eventually filled, then eventually no
\* order is in flight and the position equals
\* clip(signal * order_size, -max_position, +max_position), for good.
C20_EventualConvergence ==
    \A s \in {0 - 1, 0, 1} :
        <>[](latest_signal(data) = s) =>
            <>[](tasks = <<>> /\ position = ClippedTarget(s))

====
